---------------------------- MODULE Spec2Model ----------------------------
(***************************************************************************)
(* A model of src/src/spell_check.py: one run of main(): Config, then      *)
(* SpellCheckProcessor.process_files() with the PR comment manager          *)
(* (GitHubPRCommenter), the file reader, the issue detector and the parser  *)
(* of the detector's response.  Every call to the outside world (file read, *)
(* completion request, PR-API request) has its outcome chosen by the        *)
(* environment: a status, a payload, or a raised exception.                 *)
(***************************************************************************)
EXTENDS Integers, Sequences, FiniteSets, TLC

(***************************************************************************)
(* Bounds of the model.                                                    *)
(***************************************************************************)
\* the PR's listing of review comments holds at most this many comments
MaxComments == 2

(***************************************************************************)
(* Values.                                                                 *)
(***************************************************************************)
\* os.getenv of a variable that is not set (Python's None)
NoValue == "<unset>"
\* Python's None where the model keeps a string (category, result, commit id)
NoneStr == "<None>"
\* Python's None where the model keeps a line number
NoneLine == -1

\* the login delete_existing_comments compares against
BotLogin == "github-actions[bot]"
Logins == {BotLogin, "alice"}

\* head commits the PR can be at when get_latest_commit asks
Shas == {"sha1", "sha2"}

\* values of the string-valued required variables: unset, empty, set
StrInputs == {NoValue, "", "v"}
\* values of INPUT_MODEL_MAX_TOKEN
TokenInputs == {NoValue, "", "0", "100"}
\* values of INPUT_FAIL_ON_SPELLING and INPUT_FAIL_ON_GRAMMAR
FlagInputs == {NoValue, "True", "false"}
\* values of INPUT_FAIL_ON_BOTH, which Config does not read
BothInputs == {NoValue, "true"}

\* INPUT_FILES as a sequence of tokens: a path, or the separator ","
FilesInputs ==
    { [isset |-> FALSE, text |-> << >>],
      [isset |-> TRUE,  text |-> << >>],
      [isset |-> TRUE,  text |-> <<"a.md">>],
      [isset |-> TRUE,  text |-> <<"a.md", ",", "b.md">>] }

(***************************************************************************)
(* Config                                                                  *)
(***************************************************************************)
\* str.lower on the flag strings of the model
Lower(s) == IF s \in {"True", "TRUE", "true"} THEN "true" ELSE s

str_to_bool(value) == IF value = NoValue THEN FALSE ELSE Lower(value) = "true"

\* str.split(','): the segments between the separators; one (empty) segment
\* for the empty string
RECURSIVE SplitFrom(_, _)
SplitFrom(text, cur) ==
    IF text = << >> THEN <<cur>>
    ELSE IF Head(text) = "," THEN <<cur>> \o SplitFrom(Tail(text), "")
    ELSE SplitFrom(Tail(text), Head(text))

Split(text) == SplitFrom(text, "")

\* int(): the exception it raises, or "ok"
IntError(s) ==
    IF s = NoValue THEN "TypeError" ELSE IF s = "" THEN "ValueError" ELSE "ok"

IntValue(s) == IF s = "100" THEN 100 ELSE 0

\* truthiness of an os.getenv value
Truthy(s) == s # NoValue /\ s # ""

\* all(self.github.values()): a list is truthy when it is not empty
GithubValid(e) ==
    /\ Truthy(e.repository) /\ Truthy(e.token) /\ Truthy(e.pr_number)
    /\ Split(e.files.text) # << >>

\* all(self.openai.values())
OpenaiValid(e) ==
    /\ Truthy(e.api_key) /\ Truthy(e.model) /\ IntValue(e.max_tokens) # 0

\* the exception Config.__init__ raises before validate(), or "ok"
ConfigError(e) ==
    IF ~e.files.isset THEN "AttributeError" ELSE IntError(e.max_tokens)

(***************************************************************************)
(* The environments a run starts in: every required value set, or exactly  *)
(* one of them missing or empty.                                           *)
(***************************************************************************)
GoodEnvs ==
    { [repository |-> "v", token |-> "v", pr_number |-> "v", files |-> f,
       api_key |-> "v", model |-> "v", max_tokens |-> "100",
       fail_on_spelling |-> fs, fail_on_grammar |-> fg, fail_on_both |-> fb]
      : f \in {x \in FilesInputs : x.isset /\ x.text # << >>},
        fs \in FlagInputs, fg \in FlagInputs, fb \in BothInputs }

Defects(g) ==
    { [g EXCEPT !.repository = x] : x \in StrInputs } \cup
    { [g EXCEPT !.token = x] : x \in StrInputs } \cup
    { [g EXCEPT !.pr_number = x] : x \in StrInputs } \cup
    { [g EXCEPT !.api_key = x] : x \in StrInputs } \cup
    { [g EXCEPT !.model = x] : x \in StrInputs } \cup
    { [g EXCEPT !.max_tokens = x] : x \in TokenInputs } \cup
    { [g EXCEPT !.files = x] : x \in FilesInputs }

Envs == UNION { Defects(g) : g \in GoodEnvs }

\* the names of the required values that are missing or empty in e
MissingRequired(e) ==
    { n \in {"repository", "token", "pr_number", "api_key", "model"} : ~Truthy(e[n]) }
    \cup (IF e.max_tokens \in {NoValue, ""} THEN {"max_tokens"} ELSE {})
    \cup (IF ~e.files.isset \/ e.files.text = << >> THEN {"files"} ELSE {})

(***************************************************************************)
(* The state of a run.                                                     *)
(***************************************************************************)
VARIABLES
    env,          \* the process environment (INPUT_* variables)
    pc,           \* where the run is
    exit_code,    \* the process's exit code, -1 while it runs
    raised,       \* the exception that ended the run, NoneStr while it runs
    config,       \* the Config record (github.files, spell_check flags)
    has_issues,   \* SpellCheckProcessor.has_issues
    calls,        \* the calls made so far, in order
    listing,      \* response.json() of the comment listing
    commentIdx,   \* position of delete_existing_comments' loop
    fileIdx,      \* position of process_files' loop
    file_lines,   \* FileHandler.read_file's result for the current file
    result,       \* the detector's response text for the current file
    entries,      \* result_json, the decoded array
    entryIdx,     \* position of post_inline_comments' loop
    responses,    \* what each completion request returned, in order
    numbered_content, \* inject_line_numbers' result for the current file
    reads         \* what each read_file returned, in order

vars == <<env, pc, exit_code, raised, config, has_issues, calls, listing,
          commentIdx, fileIdx, file_lines, result, entries, entryIdx, responses,
          numbered_content, reads>>

NoConfig == [files |-> << >>, failOnSpelling |-> FALSE, failOnGrammar |-> FALSE]

\* one call: a method entered, or a request sent.  id is the comment's id
\* (DELETE), entry the position of the issue in the detector's array
\* (post_comment and what it sends)
Ev(op, path, line, id, entry) ==
    [op |-> op, path |-> path, line |-> line, id |-> id, entry |-> entry,
     commit |-> "", body |-> << >>, side |-> ""]

Call(op) == Ev(op, "", NoneLine, 0, 0)

Init ==
    /\ env \in Envs
    /\ pc = "start"
    /\ exit_code = -1
    /\ raised = NoneStr
    /\ config = NoConfig
    /\ has_issues = FALSE
    /\ calls = << >>
    /\ listing = << >>
    /\ commentIdx = 0
    /\ fileIdx = 1
    /\ file_lines = << >>
    /\ result = << >>
    /\ entries = << >>
    /\ entryIdx = 0
    /\ responses = << >>
    /\ numbered_content = << >>
    /\ reads = << >>

\* an exception nothing catches: the interpreter prints the traceback and
\* the process ends with status 1
Uncaught(exc) ==
    /\ pc' = "exited"
    /\ exit_code' = 1
    /\ raised' = exc

\* sys.exit(code)
SysExit(code) ==
    /\ pc' = "exited"
    /\ exit_code' = code
    /\ raised' = "SystemExit"

(***************************************************************************)
(* main: Config(), Logger(config), SpellCheckProcessor(config)             *)
(***************************************************************************)
LoadConfig ==
    /\ pc = "start"
    /\ IF ConfigError(env) # "ok"
         THEN Uncaught(ConfigError(env)) /\ UNCHANGED config
       ELSE IF ~GithubValid(env) \/ ~OpenaiValid(env)
         THEN SysExit(1) /\ UNCHANGED config
       ELSE /\ config' = [files |-> Split(env.files.text),
                          failOnSpelling |-> str_to_bool(env.fail_on_spelling),
                          failOnGrammar |-> str_to_bool(env.fail_on_grammar)]
            /\ pc' = "process_files"
            /\ UNCHANGED <<exit_code, raised>>
    /\ has_issues' = FALSE
    /\ UNCHANGED <<numbered_content, reads, env, calls, listing, commentIdx, fileIdx, file_lines,
                   result, entries, entryIdx, responses>>

(***************************************************************************)
(* GitHubPRCommenter.delete_existing_comments                              *)
(***************************************************************************)
\* the listings the PR can answer with: comment i has id i
Listings ==
    UNION { [1..n -> Logins] : n \in 0..MaxComments }

Comment(l, i) == [id |-> i, login |-> l[i]]

\* the comments the loop sends a DELETE for
ShouldDelete(comment) == comment.login = BotLogin

\* process_files enters delete_existing_comments, which lists the comments
ListComments ==
    /\ pc = "process_files"
    /\ calls' = calls \o <<Call("delete_existing_comments"), Call("GET comments")>>
    /\ \/ \* requests.get raises (connection error, timeout)
          /\ Uncaught("ConnectionError")
          /\ UNCHANGED <<listing, commentIdx>>
       \/ \* a status other than 200: logged, the method returns
          /\ pc' = "next_file"
          /\ UNCHANGED <<listing, commentIdx, exit_code, raised>>
       \/ \* 200 and the listing
          \E l \in Listings :
            /\ listing' = l
            /\ commentIdx' = 1
            /\ pc' = "delete_loop"
            /\ UNCHANGED <<exit_code, raised>>
    /\ UNCHANGED <<numbered_content, reads, env, config, has_issues, fileIdx, file_lines, result, entries,
                   entryIdx, responses>>

\* one iteration of the loop over the listing, or its end
DeleteStep ==
    /\ pc = "delete_loop"
    /\ IF commentIdx > Len(listing)
         THEN /\ pc' = "next_file"
              /\ UNCHANGED <<calls, commentIdx, exit_code, raised>>
       ELSE IF ~ShouldDelete(Comment(listing, commentIdx))
         THEN /\ commentIdx' = commentIdx + 1
              /\ UNCHANGED <<calls, pc, exit_code, raised>>
       ELSE /\ calls' = Append(calls, Ev("DELETE", "", NoneLine, Comment(listing, commentIdx).id, 0))
            /\ \/ \* requests.delete raises
                  /\ Uncaught("ConnectionError")
                  /\ UNCHANGED commentIdx
               \/ \* 204, or another status (logged)
                  /\ commentIdx' = commentIdx + 1
                  /\ UNCHANGED <<pc, exit_code, raised>>
    /\ UNCHANGED <<numbered_content, reads, env, config, has_issues, listing, fileIdx, file_lines, result,
                   entries, entryIdx, responses>>

(***************************************************************************)
(* Texts: a text is a sequence of tokens, a token a character or, inside a *)
(* JSON text, a whole object.                                              *)
(***************************************************************************)
\* the objects a detector's array can hold
Objects ==
    [ sentinel |-> [hasMessage |-> TRUE,  category |-> NoneStr, line_number |-> NoneLine,
                    original_text |-> NoneStr, suggested_text |-> NoneStr],
      sp1      |-> [hasMessage |-> FALSE, category |-> "spelling issue", line_number |-> 1,
                    original_text |-> "teh", suggested_text |-> "the"],
      gr2      |-> [hasMessage |-> FALSE, category |-> "grammar issue", line_number |-> 2,
                    original_text |-> "is", suggested_text |-> "are"],
      both1    |-> [hasMessage |-> FALSE, category |-> "both", line_number |-> 1,
                    original_text |-> "their", suggested_text |-> "there is"],
      nocat    |-> [hasMessage |-> FALSE, category |-> NoneStr, line_number |-> 1,
                    original_text |-> "teh", suggested_text |-> "the"],
      style2   |-> [hasMessage |-> FALSE, category |-> "style issue", line_number |-> 2,
                    original_text |-> NoneStr, suggested_text |-> NoneStr],
      noline   |-> [hasMessage |-> FALSE, category |-> "spelling issue", line_number |-> NoneLine,
                    original_text |-> "teh", suggested_text |-> "the"] ]

ObjectTokens == DOMAIN Objects

\* the characters of the argument of result.strip: the backquote (BQ),
\* j, s, o, n and the newline (NL)
FenceChars == {"BQ", "j", "s", "o", "n", "NL"}

\* the whitespace json.loads skips around a value
JsonSpace == {" ", "NL"}

RECURSIVE LStrip(_, _)
LStrip(text, chars) ==
    IF text # << >> /\ Head(text) \in chars THEN LStrip(Tail(text), chars) ELSE text

RECURSIVE RStrip(_, _)
RStrip(text, chars) ==
    IF text # << >> /\ text[Len(text)] \in chars
    THEN RStrip(SubSeq(text, 1, Len(text) - 1), chars) ELSE text

\* str.strip(chars): drops the leading and trailing characters that are in chars
Strip(text, chars) == RStrip(LStrip(text, chars), chars)

\* json.loads: the decoded value, or kind "error" for json.JSONDecodeError
JsonLoads(text) ==
    LET t == Strip(text, JsonSpace) IN
    IF Len(t) >= 2 /\ t[1] = "[" /\ t[Len(t)] = "]"
       /\ \A i \in 2..(Len(t) - 1) : t[i] \in ObjectTokens
      THEN [kind |-> "array", items |-> SubSeq(t, 2, Len(t) - 1)]
    ELSE IF Len(t) = 1 /\ t[1] \in ObjectTokens
      THEN [kind |-> "object", items |-> << >>]
    ELSE IF t = <<"n", "u", "l", "l">>
      THEN [kind |-> "null", items |-> << >>]
    ELSE [kind |-> "error", items |-> << >>]

Fenced(body) == <<"BQ", "BQ", "BQ", "j", "s", "o", "n", "NL">> \o body \o <<"NL", "BQ", "BQ", "BQ">>

\* the texts the completion endpoint answers with
Responses ==
    { << >>,
      <<"[", "sentinel", "]">>,
      Fenced(<<"[", "sentinel", "]">>),
      <<"[", "sp1", "]">>,
      <<"[", "sp1", "gr2", "]">>,
      Fenced(<<"[", "gr2", "]">>),
      <<"[", "both1", "]">>,
      <<"[", "nocat", "sp1", "]">>,
      <<"[", "style2", "noline", "]">>,
      <<"O", "k">>,
      <<"n", "u", "l", "l">>,
      <<"sp1">> }

\* str.capitalize on the categories of the model
Capitalize(s) ==
    CASE s = "spelling issue" -> "Spelling issue"
      [] s = "grammar issue" -> "Grammar issue"
      [] s = "both" -> "Both"
      [] s = "style issue" -> "Style issue"
      [] OTHER -> s

\* f"**{category.capitalize()}**: `{original_text}`\n**Suggestion**: `{suggested_text}`":
\* the three values the text is made of (None renders as "None")
Message(entry) ==
    <<Capitalize(entry.category),
      IF entry.original_text = NoneStr THEN "None" ELSE entry.original_text,
      IF entry.suggested_text = NoneStr THEN "None" ELSE entry.suggested_text>>

(***************************************************************************)
(* FileHandler.read_file and SpellCheckProcessor.inject_line_numbers       *)
(***************************************************************************)
\* a line is a sequence of characters; the contents of a readable file
FileContents ==
    { << >>,
      << <<"l", "1", "NL">>, <<"t", "e", "h", " ", "NL">> >> }

Whitespace == {" ", "NL"}

Digits == <<"1", "2", "3", "4", "5", "6", "7", "8", "9">>

\* as if the line were copied without rstrip()
inject_line_numbersUntrimmed(lines) ==
    [i \in 1..Len(lines) |-> <<Digits[i], ":", " ">> \o lines[i] \o <<"NL">>]

\* f"{idx + 1}: {line.rstrip()}\n" for each line
inject_line_numbers(lines) ==
    [i \in 1..Len(lines) |->
        <<Digits[i], ":", " ">> \o RStrip(lines[i], Whitespace) \o <<"NL">>]

\* ''.join(numbered_content), the end of the prompt
RECURSIVE Join(_)
Join(lines) == IF lines = << >> THEN << >> ELSE Head(lines) \o Join(Tail(lines))

\* what open/readlines can do with a path
ReadOutcomes(path) ==
    IF path = "" THEN {"OSError"} ELSE {"OSError", "UnicodeDecodeError", "ok"}

\* the exceptions read_file catches
ReadCaught(exc) == exc = "OSError"

\* as if delete_existing_comments were called inside the loop over the files
NextFileDeletesAgain ==
    /\ fileIdx' = fileIdx + 1
    /\ pc' = "process_files"

\* the loop over the files goes on with the next one
NextFile ==
    /\ fileIdx' = fileIdx + 1
    /\ pc' = "next_file"

\* what one read_file call did: ok is false when open or readlines raised
Read(path, ok, lines) == [path |-> path, ok |-> ok, lines |-> lines]

\* "if file_lines:": None and the empty list are both false
HasContent(lines) == lines # << >>

\* the head of process_files' loop, FileHandler.read_file and
\* inject_line_numbers
ReadFile ==
    /\ pc = "next_file"
    /\ IF fileIdx > Len(config.files)
         THEN /\ pc' = "check_pr_status"
              /\ UNCHANGED <<calls, fileIdx, file_lines, exit_code, raised,
                             numbered_content, reads>>
       ELSE /\ calls' = Append(calls, Ev("read_file", config.files[fileIdx], NoneLine, 0, 0))
            /\ \E o \in ReadOutcomes(config.files[fileIdx]) :
                 IF o # "ok"
                 THEN /\ reads' = Append(reads, Read(config.files[fileIdx], FALSE, << >>))
                      /\ UNCHANGED <<file_lines, numbered_content>>
                      /\ IF ReadCaught(o)
                         THEN \* returns None: the file is skipped
                              NextFile /\ UNCHANGED <<exit_code, raised>>
                         ELSE Uncaught(o) /\ UNCHANGED fileIdx
                 ELSE \E c \in FileContents :
                      /\ reads' = Append(reads, Read(config.files[fileIdx], TRUE, c))
                      /\ IF ~HasContent(c)
                         THEN \* an empty list is falsy: the file is skipped
                              /\ NextFile
                              /\ UNCHANGED <<file_lines, numbered_content, exit_code, raised>>
                         ELSE /\ file_lines' = c
                              /\ numbered_content' = inject_line_numbers(c)
                              /\ pc' = "check_spelling"
                              /\ UNCHANGED <<fileIdx, exit_code, raised>>
    /\ UNCHANGED <<env, config, has_issues, listing, commentIdx, result, entries,
                   entryIdx, responses>>

(***************************************************************************)
(* SpellChecker.check_spelling_with_line_numbers                           *)
(***************************************************************************)
Response(path, ok, text) == [path |-> path, ok |-> ok, text |-> text]

CheckSpelling ==
    /\ pc = "check_spelling"
    /\ calls' = Append(calls, [Ev("completion", config.files[fileIdx], NoneLine, 0, 0)
                                  EXCEPT !.body = Join(numbered_content)])
    /\ \/ \* the request raises: caught, None is returned, the file is skipped
          /\ responses' = Append(responses, Response(config.files[fileIdx], FALSE, << >>))
          /\ NextFile
          /\ UNCHANGED result
       \/ \E r \in Responses :
            /\ responses' = Append(responses, Response(config.files[fileIdx], TRUE, r))
            /\ IF r = << >>
               THEN \* an empty text is falsy: the file is skipped
                    NextFile /\ UNCHANGED result
               ELSE /\ result' = r
                    /\ pc' = "post_inline_comments"
                    /\ UNCHANGED fileIdx
    /\ UNCHANGED <<numbered_content, reads, env, config, has_issues, listing, commentIdx, file_lines,
                   entries, entryIdx, exit_code, raised>>

(***************************************************************************)
(* SpellCheckProcessor.post_inline_comments                                *)
(***************************************************************************)
\* the handler of json.JSONDecodeError formats a name, e, that is bound
\* nowhere: evaluating it raises NameError
DecodeHandler == "NameError"

\* json.loads(result.strip(...)) and the isinstance check
ParseResponse ==
    /\ pc = "post_inline_comments"
    /\ LET decoded == JsonLoads(Strip(result, FenceChars)) IN
       IF decoded.kind = "error"
         THEN Uncaught(DecodeHandler) /\ UNCHANGED <<entries, entryIdx, fileIdx>>
       ELSE IF decoded.kind # "array"
         THEN NextFile /\ UNCHANGED <<entries, entryIdx, exit_code, raised>>
       ELSE /\ entries' = decoded.items
            /\ entryIdx' = 1
            /\ pc' = "entries_loop"
            /\ UNCHANGED <<fileIdx, exit_code, raised>>
    /\ UNCHANGED <<numbered_content, reads, env, config, has_issues, calls, listing, commentIdx, file_lines,
                   result, responses>>

\* as if the elif branch for grammar issues were missing
QualifiesSpellingOnly(category, cfg) ==
    category = "spelling issue" /\ cfg.failOnSpelling

\* whether the entry sets has_issues
Qualifies(category, cfg) ==
    \/ category = "spelling issue" /\ cfg.failOnSpelling
    \/ category = "grammar issue" /\ cfg.failOnGrammar

\* one iteration of the loop over result_json (with post_comment and
\* get_latest_commit), or its end
ProcessEntry ==
    /\ pc = "entries_loop"
    /\ IF entryIdx > Len(entries)
         THEN NextFile /\ UNCHANGED <<calls, entryIdx, has_issues, exit_code, raised>>
       ELSE LET entry == Objects[entries[entryIdx]]
                path == config.files[fileIdx]
                post == [Ev("post_comment", path, entry.line_number, 0, entryIdx)
                           EXCEPT !.body = Message(entry)]
                get  == Ev("GET pull", "", NoneLine, 0, entryIdx)
            IN
            IF entry.hasMessage
              THEN /\ entryIdx' = entryIdx + 1
                   /\ UNCHANGED <<calls, pc, fileIdx, has_issues, exit_code, raised>>
            ELSE IF entry.category = NoneStr
              THEN \* None has no capitalize
                   /\ Uncaught("AttributeError")
                   /\ UNCHANGED <<calls, entryIdx, fileIdx, has_issues>>
            ELSE \/ \* get_latest_commit: requests.get raises
                    /\ calls' = calls \o <<post, get>>
                    /\ Uncaught("ConnectionError")
                    /\ UNCHANGED <<entryIdx, fileIdx, has_issues>>
                 \/ \* get_latest_commit: a status other than 200, no commit id
                    /\ calls' = calls \o <<post, get>>
                    /\ has_issues' = (has_issues \/ Qualifies(entry.category, config))
                    /\ entryIdx' = entryIdx + 1
                    /\ UNCHANGED <<pc, fileIdx, exit_code, raised>>
                 \/ \* a commit id, then requests.post
                    \E sha \in Shas :
                      /\ calls' = calls \o <<post, [get EXCEPT !.commit = sha],
                             [post EXCEPT !.op = "POST comment", !.commit = sha,
                                          !.side = "RIGHT"]>>
                      /\ \/ \* requests.post raises
                            /\ Uncaught("ConnectionError")
                            /\ UNCHANGED <<entryIdx, fileIdx, has_issues>>
                         \/ \* 201, or another status (logged)
                            /\ has_issues' = (has_issues \/ Qualifies(entry.category, config))
                            /\ entryIdx' = entryIdx + 1
                            /\ UNCHANGED <<pc, fileIdx, exit_code, raised>>
    /\ UNCHANGED <<numbered_content, reads, env, config, listing, commentIdx, file_lines, result, entries,
                   responses>>

(***************************************************************************)
(* SpellCheckProcessor.check_pr_status                                     *)
(***************************************************************************)
check_pr_status ==
    /\ pc = "check_pr_status"
    /\ calls' = Append(calls, Call("check_pr_status"))
    /\ SysExit(IF has_issues THEN 1 ELSE 0)
    /\ UNCHANGED <<numbered_content, reads, env, config, has_issues, listing, commentIdx, fileIdx,
                   file_lines, result, entries, entryIdx, responses>>

Next ==
    \/ LoadConfig
    \/ ListComments
    \/ DeleteStep
    \/ ReadFile
    \/ CheckSpelling
    \/ ParseResponse
    \/ ProcessEntry
    \/ check_pr_status

Spec == Init /\ [][Next]_vars

\* the scheduler runs the single thread until the process exits
FairSpec == Spec /\ WF_vars(Next)

(***************************************************************************)
(* SpellCheckProcessor.inject_line_numbers on its own: the argument is any *)
(* list of strings, the lists readlines() returns among them.              *)
(***************************************************************************)
MaxLines == 2

MaxLineLen == 2

\* the characters of a line: a letter and two kinds of whitespace
LineChars == {"a", " ", "NL"}

SeqsUpTo(S, n) == UNION { [1..k -> S] : k \in 0..n }

LineInputs == SeqsUpTo(SeqsUpTo(LineChars, MaxLineLen), MaxLines)

AnnotateInit ==
    /\ file_lines \in LineInputs
    /\ pc = "annotate"
    /\ numbered_content = << >>
    /\ env = CHOOSE e \in GoodEnvs : TRUE
    /\ config = NoConfig
    /\ exit_code = -1
    /\ raised = NoneStr
    /\ has_issues = FALSE
    /\ calls = << >>
    /\ listing = << >>
    /\ commentIdx = 0
    /\ fileIdx = 1
    /\ result = << >>
    /\ entries = << >>
    /\ entryIdx = 0
    /\ responses = << >>
    /\ reads = << >>

\* numbered_content = self.inject_line_numbers(file_lines)
AnnotateLines ==
    /\ pc = "annotate"
    /\ numbered_content' = inject_line_numbers(file_lines)
    /\ pc' = "annotated"
    /\ UNCHANGED <<file_lines, env, config, exit_code, raised, has_issues, calls,
                   listing, commentIdx, fileIdx, result, entries, entryIdx,
                   responses, reads>>

AnnotateSpec == AnnotateInit /\ [][AnnotateLines]_vars

(***************************************************************************)
(* What the claims speak of.                                               *)
(***************************************************************************)
\* the run passed Config.validate
Validated == config # NoConfig

\* the positions of the calls of one kind
Idx(op) == {i \in DOMAIN calls : calls[i].op = op}

\* the array a response decodes to (empty when it decodes to none)
ItemsOf(r) ==
    LET d == JsonLoads(Strip(r.text, FenceChars)) IN
    IF r.ok /\ d.kind = "array" THEN d.items ELSE << >>

\* the categories of the issues (the elements without a message field) of
\* all the responses so far
IssueCategories ==
    UNION { { Objects[ItemsOf(responses[k])[i]].category :
                i \in {j \in DOMAIN ItemsOf(responses[k]) :
                         ~Objects[ItemsOf(responses[k])[j]].hasMessage} }
            : k \in DOMAIN responses }

\* the response is the sentinel list
IsSentinelList(r) ==
    /\ ItemsOf(r) # << >>
    /\ \A i \in DOMAIN ItemsOf(r) : Objects[ItemsOf(r)[i]].hasMessage

\* the position of a path in the file list
FileIndex(path) == CHOOSE i \in DOMAIN config.files : config.files[i] = path

DeleteOps == {"delete_existing_comments", "GET comments", "DELETE"}
FileOps == {"read_file", "completion", "post_comment", "GET pull", "POST comment"}

(***************************************************************************)
(* C1: a run that passed validation and whose issues are all spelling or   *)
(* grammar issues exits with 1 exactly when some issue's category had its  *)
(* fail-on flag set, and with 0 otherwise.                                 *)
(***************************************************************************)
C1_ExitCodeIffQualifyingIssue ==
    (pc = "exited" /\ Validated /\ MissingRequired(env) = {}
        /\ IssueCategories \subseteq {"spelling issue", "grammar issue"})
    => exit_code = (IF \E c \in IssueCategories : Qualifies(c, config) THEN 1 ELSE 0)

(***************************************************************************)
(* C2: with INPUT_FAIL_ON_BOTH true, a run that met an issue of category   *)
(* 'both' and reached check_pr_status has the failure flag set and exits   *)
(* with 1.                                                                 *)
(***************************************************************************)
C2_FailOnBothFolds ==
    (pc = "exited" /\ raised = "SystemExit" /\ Validated
        /\ str_to_bool(env.fail_on_both) /\ "both" \in IssueCategories)
    => (has_issues /\ exit_code = 1)

(***************************************************************************)
(* C3: when the run has ended, every element without a message field of   *)
(* every response that decoded to an array has had exactly one call of     *)
(* post_comment, with the file's path and the element's line_number.       *)
(***************************************************************************)
C3_OneCommentPerIssue ==
    pc = "exited" =>
      \A k \in DOMAIN responses : \A i \in DOMAIN ItemsOf(responses[k]) :
        ~Objects[ItemsOf(responses[k])[i]].hasMessage =>
          Cardinality({ j \in Idx("post_comment") :
                          /\ calls[j].path = responses[k].path
                          /\ calls[j].entry = i
                          /\ calls[j].line = Objects[ItemsOf(responses[k])[i]].line_number }) = 1

(***************************************************************************)
(* C4: once delete_existing_comments is over, each comment of the listing  *)
(* written by the bot has had exactly one DELETE and each comment of       *)
(* another author none.                                                    *)
(***************************************************************************)
C4_DeleteExactlyBotComments ==
    pc \notin {"start", "process_files", "delete_loop"} =>
      \A i \in DOMAIN listing :
        Cardinality({ j \in Idx("DELETE") : calls[j].id = Comment(listing, i).id })
          = (IF listing[i] = BotLogin THEN 1 ELSE 0)

(***************************************************************************)
(* C5: delete_existing_comments is entered exactly once, first of all; no  *)
(* listing or DELETE follows a file read, a completion or a post; the      *)
(* posts come one at a time (post_comment, its commit lookup, its creation *)
(* request), in the order of the file list and, within a file, of the      *)
(* detector's array.                                                       *)
(***************************************************************************)
C5_DeleteThenPostInOrder ==
    /\ Cardinality(Idx("delete_existing_comments")) <= 1
    /\ (Validated /\ pc # "process_files") =>
          (Idx("delete_existing_comments") = {1})
    /\ \A i, j \in DOMAIN calls :
          (i < j /\ calls[i].op \in FileOps) => calls[j].op \notin DeleteOps
    /\ \A i, j \in Idx("post_comment") :
          i < j =>
            \/ FileIndex(calls[i].path) < FileIndex(calls[j].path)
            \/ /\ calls[i].path = calls[j].path
               /\ calls[i].entry < calls[j].entry
    /\ \A i, j \in Idx("read_file") :
          i < j => FileIndex(calls[i].path) < FileIndex(calls[j].path)
    /\ \A j \in Idx("GET pull") :
          j > 1 /\ calls[j - 1].op = "post_comment"
    /\ \A j \in Idx("POST comment") :
          /\ j > 2 /\ calls[j - 1].op = "GET pull" /\ calls[j - 2].op = "post_comment"
          /\ calls[j - 2].path = calls[j].path /\ calls[j - 2].entry = calls[j].entry

\* a finished run that deleted a comment and then posted two comments on
\* the first file and one on the second
C5_Witness ==
    /\ pc = "exited" /\ raised = "SystemExit"
    /\ Idx("DELETE") # {}
    /\ \E i, j, k \in Idx("POST comment") :
          /\ i < j /\ j < k
          /\ calls[i].path = "a.md" /\ calls[i].entry = 1
          /\ calls[j].path = "a.md" /\ calls[j].entry = 2
          /\ calls[k].path = "b.md"

(***************************************************************************)
(* C6: a read that fails, for whatever reason, never ends the run: the     *)
(* file is skipped and the loop goes on, and a run none of whose files     *)
(* could be read exits with 0.                                             *)
(***************************************************************************)
C6_ReadFailureSkipsFile ==
    /\ raised \notin {"OSError", "UnicodeDecodeError"}
    /\ (pc = "exited" /\ raised = "SystemExit" /\ Validated /\ Idx("completion") = {})
          => exit_code = 0

(***************************************************************************)
(* C7: post_inline_comments, given a text that does not decode to an       *)
(* array, returns: no exception, no call, the failure flag as it was, and  *)
(* the loop at the next file.                                              *)
(***************************************************************************)
C7_UndecodableResponseReturns ==
    [][ (pc = "post_inline_comments"
           /\ JsonLoads(Strip(result, FenceChars)).kind # "array")
        => (/\ pc' = "next_file"
            /\ fileIdx' = fileIdx + 1
            /\ raised' = NoneStr
            /\ calls' = calls
            /\ has_issues' = has_issues) ]_vars

(***************************************************************************)
(* C8: a finished run all of whose detector responses were the sentinel    *)
(* list, fenced or not, has posted no comment and exits with 0.            *)
(***************************************************************************)
C8_SentinelRunExitsZero ==
    (pc = "exited" /\ Validated /\ responses # << >>
        /\ \A k \in DOMAIN responses : IsSentinelList(responses[k]))
    => (Idx("post_comment") = {} /\ ~has_issues /\ exit_code = 0)

(***************************************************************************)
(* C9: when a required value is missing or empty, the run makes no call    *)
(* (no request, no file read) and ends with a non-zero exit code.          *)
(***************************************************************************)
C9_MissingValueStopsBeforeAnyCall ==
    MissingRequired(env) # {} =>
      /\ calls = << >>
      /\ pc \in {"start", "exited"}
      /\ pc = "exited" => exit_code # 0

(***************************************************************************)
(* C10: a run that passed validation ends in check_pr_status, whatever the *)
(* outcomes of its steps: no exception ends it.                            *)
(***************************************************************************)
C10_RunEndsInCheckPrStatus ==
    (pc = "exited" /\ Validated) =>
      /\ raised = "SystemExit"
      /\ calls[Len(calls)].op = "check_pr_status"
      /\ exit_code \in {0, 1}

(***************************************************************************)
(* C11: every file whose read returned its lines has had exactly one       *)
(* completion request, and every file whose read failed has had none.      *)
(***************************************************************************)
C11_OneCompletionPerReadableFile ==
    \A k \in DOMAIN reads :
      LET n == Cardinality({ j \in Idx("completion") : calls[j].path = reads[k].path })
          pending == k = Len(reads) /\ pc = "check_spelling"
      IN  /\ n <= 1
          /\ ~reads[k].ok => n = 0
          /\ (reads[k].ok /\ ~pending) => n = 1

(***************************************************************************)
(* C11, second part: when the completion request fails, nothing is raised, *)
(* no comment is posted for the file, the failure flag stays as it was and *)
(* the loop goes on with the next file.                                    *)
(***************************************************************************)
C11_CompletionFailureSkipsFile ==
    [][ (pc = "check_spelling" /\ responses' # responses
           /\ ~responses'[Len(responses')].ok)
        => (/\ pc' = "next_file"
            /\ fileIdx' = fileIdx + 1
            /\ raised' = NoneStr
            /\ Len(calls') = Len(calls) + 1
            /\ has_issues' = has_issues) ]_vars

\* the categories the prompt of check_spelling_with_line_numbers asks for
KnownCategories == {"spelling issue", "grammar issue", "both"}

(***************************************************************************)
(* C12: for an element without a message field that has no category, an    *)
(* unknown category or no line_number, the loop calls post_comment once,   *)
(* raises nothing of its own, and leaves the failure flag as it was when   *)
(* the category is none of the known ones.                                 *)
(***************************************************************************)
C12_MalformedEntryStillPosted ==
    [][ (/\ pc = "entries_loop" /\ entryIdx <= Len(entries)
         /\ ~Objects[entries[entryIdx]].hasMessage
         /\ \/ Objects[entries[entryIdx]].category \notin KnownCategories
            \/ Objects[entries[entryIdx]].line_number = NoneLine)
        => (/\ Len(calls') > Len(calls)
            /\ calls'[Len(calls) + 1].op = "post_comment"
            /\ calls'[Len(calls) + 1].line = Objects[entries[entryIdx]].line_number
            /\ raised' # "AttributeError"
            /\ Objects[entries[entryIdx]].category \notin KnownCategories
                  => has_issues' = has_issues) ]_vars

(***************************************************************************)
(* C13: every post_comment call is followed by its own commit lookup; a    *)
(* lookup that obtains no head commit id sends no creation request and the *)
(* loop goes on to the next issue; a lookup that obtains one is followed   *)
(* by exactly one creation request carrying that commit id, the path and   *)
(* line given to post_comment and side RIGHT; so an issue costs at most    *)
(* two calls of the pull-request interface.                                *)
(***************************************************************************)
C13_LookupThenAtMostOneCreate ==
    [][ (pc = "entries_loop" /\ Len(calls') > Len(calls))
        => LET n == Len(calls)
               post == calls'[n + 1]
               get == calls'[n + 2]
           IN  /\ post.op = "post_comment"
               /\ Len(calls') >= n + 2
               /\ get.op = "GET pull"
               /\ IF get.commit = ""
                    THEN /\ Len(calls') = n + 2
                         /\ pc' = "entries_loop"
                         /\ entryIdx' = entryIdx + 1
                         /\ raised' = NoneStr
                    ELSE /\ Len(calls') = n + 3
                         /\ calls'[n + 3].op = "POST comment"
                         /\ calls'[n + 3].commit = get.commit
                         /\ calls'[n + 3].path = post.path
                         /\ calls'[n + 3].line = post.line
                         /\ calls'[n + 3].body = post.body
                         /\ calls'[n + 3].side = "RIGHT" ]_vars

(***************************************************************************)
(* C14: inject_line_numbers returns as many elements as it is given lines, *)
(* and the N-th (counting from 1) is the prefix "N: ", then the N-th line  *)
(* up to its last character that is not whitespace, then a newline.        *)
(***************************************************************************)
C14_AnnotationKeepsPositions ==
    pc = "annotated" =>
      /\ Len(numbered_content) = Len(file_lines)
      /\ \A N \in 1..Len(file_lines) :
           LET line == file_lines[N]
               out == numbered_content[N]
           IN  \E k \in 0..Len(line) :
                 /\ \A j \in (k + 1)..Len(line) : line[j] \in {" ", "NL"}
                 /\ k > 0 => line[k] \notin {" ", "NL"}
                 /\ Len(out) = k + 4
                 /\ out[1] = Digits[N] /\ out[2] = ":" /\ out[3] = " "
                 /\ \A j \in 1..k : out[3 + j] = line[j]
                 /\ out[k + 4] = "NL"

\* two lines were annotated, the second with whitespace after its text
C14_Witness ==
    /\ pc = "annotated"
    /\ file_lines = << <<"a", "NL">>, <<"a", " ">> >>
    /\ numbered_content = << <<"1", ":", " ", "a", "NL">>,
                             <<"2", ":", " ", "a", "NL">> >>

\* some extracted issue has a category whose fail-on flag is enabled
SomeIssueMatchesFlag ==
    \E c \in IssueCategories :
       \/ c = "spelling issue" /\ config.failOnSpelling
       \/ c = "grammar issue" /\ config.failOnGrammar

(***************************************************************************)
(* C15: has_issues is false until the configuration is loaded, no step     *)
(* takes it from true to false, it is true only if some extracted issue    *)
(* has a category whose flag is enabled, every issue the loop has passed   *)
(* whose category matches an enabled flag has set it whatever the lookup   *)
(* and the post answered, and when check_pr_status ends the run the flag   *)
(* is true exactly when such an issue was extracted and the exit code is 1 *)
(* exactly then.                                                           *)
(***************************************************************************)
C15_FlagDependsOnCategoriesOnly ==
    /\ [](~Validated => ~has_issues)
    /\ [][has_issues => has_issues']_vars
    /\ [](has_issues => SomeIssueMatchesFlag)
    /\ []((pc = "entries_loop") =>
            \A i \in 1..(entryIdx - 1) :
               LET e == Objects[entries[i]] IN
               (/\ ~e.hasMessage
                /\ \/ e.category = "spelling issue" /\ config.failOnSpelling
                   \/ e.category = "grammar issue" /\ config.failOnGrammar)
               => has_issues)
    /\ []((pc = "exited" /\ raised = "SystemExit" /\ Validated) =>
            /\ has_issues <=> SomeIssueMatchesFlag
            /\ exit_code = IF SomeIssueMatchesFlag THEN 1 ELSE 0)

\* a run that check_pr_status ended with code 1 although every commit lookup
\* answered with an error status and no comment was created
C15_Witness ==
    /\ pc = "exited" /\ raised = "SystemExit" /\ exit_code = 1
    /\ Idx("post_comment") # {}
    /\ Idx("POST comment") = {}
    /\ \A i \in Idx("GET pull") : calls[i].commit = ""
    /\ Cardinality(Idx("GET pull")) = Cardinality(Idx("post_comment"))

=============================================================================
